---- MODULE Spec2Model ----
(***************************************************************************)
(* Model of the GitHub auto-deployer Cloud Function                        *)
(* (tutorials/cloud-functions-github-auto-deployer/auto-deployer/index.js).*)
(*                                                                         *)
(* One action of the model is one macrotask of the Node.js event loop: the *)
(* invocation of the handler or of one collaborator callback, together     *)
(* with every promise reaction (microtask) it triggers, up to the point    *)
(* where the next asynchronous collaborator call has been issued.          *)
(***************************************************************************)
EXTENDS Integers, Sequences, FiniteSets, TLC

\* ------------------------------------------------------------------ bounds
NumRequests == 2     \* webhook calls handled by one process
MaxPolls == 1        \* "not done" replies to operations.get, over the whole run
MaxFaults == 1       \* collaborator calls that fail and random names that
                     \* repeat an earlier one, over the whole run

Requests == 1..NumRequests

\* JavaScript's undefined; every value it is compared with is a record or a
\* tuple.
Undefined == [undefined |-> TRUE]

\* ------------------------------------------------------------ configuration
\* config2.json: the static deployment list, the secret and the bucket.
secretToken == "secret"
stageBucket == "stagebucket"
configLocation == "us-central1"
PROJECT_ID == "project"

Repo(user, repo) == <<user, repo>>

deployments ==
  << [repository |-> Repo("o", "a"), path |-> "fa1", functionName |-> "f1"],
     [repository |-> Repo("o", "a"), path |-> "fa2", functionName |-> "f2"],
     [repository |-> Repo("o", "b"), path |-> "fb", functionName |-> "f3"] >>

\* ------------------------------------------------------------ request input
\* A parsed body either has repository.owner.name / repository.name or lacks
\* the repository member altogether.
NoRepository == [repository |-> Undefined]
HasRepository(body) == body.repository # Undefined
Body(user, repo) == [repository |-> [owner |-> user, name |-> repo]]

Bodies == {NoRepository, Body("o", "a"), Body("o", "b"), Body("O", "a")}

\* The raw payload is the text the sender transmitted: some serialization of
\* an object.  form = "compact" is the text JSON.stringify produces for the
\* object; "spaced" is another text of the same object.
RawBodies ==
  [obj : Bodies, form : {"compact"}] \cup [obj : {Body("O", "a")}, form : {"spaced"}]

JSONParse(raw) == raw.obj
JSONStringify(obj) == [obj |-> obj, form |-> "compact"]

\* crypto.createHmac('sha1', key).update(text).digest('hex')
HmacSha1(key, text) == <<"hmac-sha1", key, text>>
SigHeader(digest) == <<"sha1=", digest>>
\* req.headers['x-hub-signature'] of a request without that header
NoHeader == <<>>

\* Headers a sender can present for a payload: signed with the shared
\* secret over the transmitted text or over the compact text of the same
\* object, or absent.
Headers(raw) ==
  { SigHeader(HmacSha1(secretToken, raw)),
    SigHeader(HmacSha1(secretToken, JSONStringify(JSONParse(raw)))),
    NoHeader }

\* validateRequest: TRUE when the request passes, FALSE when it throws the
\* Unauthorized error.  req.body is the parsed payload.
validateRequest(request) ==
  LET digest == HmacSha1(secretToken, JSONStringify(JSONParse(request.rawBody)))
  IN  request.signature = SigHeader(digest)

\* A filter that compares the repository name and not its owner.
filterDeploymentsByName(repository) ==
  SelectSeq(deployments, LAMBDA deployment : deployment.repository[2] = repository[2])

\* getCurrentDeployments: the filter over config.deployments, order kept.
filterDeployments(repository) ==
  SelectSeq(deployments, LAMBDA deployment : deployment.repository = repository)

\* ------------------------------------------------------------------ paths
\* `/tmp/${randomstring.generate(13)}.zip`
ArchivePath(token) == <<"tmp", token>>
\* path.parse(archive).base
PathBase(p) == p[Len(p)]
\* A URL built from the whole archive path instead of its base name.
SourceArchiveUrlFullPath(archive) == <<"gs", stageBucket>> \o archive

\* `gs://${config.stageBucket}/${path.parse(archive).base}`
SourceArchiveUrl(archive) == <<"gs", stageBucket, PathBase(archive)>>
\* `projects/${PROJECT_ID}/locations/${config.location}`
Location == <<"projects", PROJECT_ID, "locations", configLocation>>
\* `${location}/functions/${name}`
FunctionResourceName(name) == Location \o <<"functions", name>>

\* ------------------------------------------------------------------ state
VARIABLES
  req,                 \* per request: the webhook call as received
  stage,               \* per request: where its promise chain stands
  response,            \* per request: what res.status().send() was given
  tasks,               \* per request: one record per archive of the fan-out
  downloads,           \* per request: downloadGitRepo calls issued
  currentDeployments,  \* config.currentDeployments (shared by all requests)
  client,              \* the module-level `client` (NoClient = not yet set)
  lookups,             \* google.auth.getApplicationDefault calls issued
  constructions,       \* google.cloudfunctions(...) clients constructed
  fs,                  \* archive files present in /tmp
  bucket,              \* object names present in the stage bucket
  functions,           \* function resources existing on the platform
  faults,              \* failed calls and repeated names so far
  notDone              \* "not done" replies given so far

vars == <<req, stage, response, tasks, downloads, currentDeployments, client,
          lookups, constructions, fs, bucket, functions, faults, notDone>>

NoResponse == [status |-> 0]
ErrorResponse(status, message) == [status |-> status, message |-> message]
OkResponse(results) == [status |-> 200, results |-> results]

\* A client object is identified by the deploy sequence whose credential
\* lookup constructed it.
NoClient == <<>>
NewClient(r, i) == <<r, i>>

\* The environment lets a collaborator call fail while the budget lasts.
Outcome(failed) ==
  /\ failed => faults < MaxFaults
  /\ faults' = IF failed THEN faults + 1 ELSE faults

NoReply == [err |-> FALSE, done |-> FALSE, error |-> FALSE, response |-> Undefined]
NoResource == [sourceArchiveUrl |-> <<>>, name |-> <<>>]
NoOperation == [name |-> <<>>]

\* A deployment's pipeline within one request: zipDir, uploadArchive,
\* deployFunction, and what was passed to and returned by the collaborators.
NewTask(deployment, archive) ==
  [ cfg |-> deployment,        \* config whose path zipDir was given
    archive |-> archive,       \* path zipFolder writes to
    zip |-> "running",         \* running | ok | err
    upload |-> "none",         \* none | running | ok | err
    deploy |-> "none",         \* none | auth | create | update | get | wait |
                               \* resolved | rejected | threw
    fnCfg |-> Undefined,       \* config whose functionName was deployed
    gcf |-> NoClient,          \* client the deploy sequence uses
    resource |-> NoResource,
    createCalls |-> <<>>,      \* arguments of functions.create calls
    createReason |-> "none",   \* none | ok | alreadyExists | other
    updateCalls |-> <<>>,      \* arguments of functions.update calls
    updateResult |-> NoOperation,  \* handle the update call returned
    operation |-> NoOperation, \* handle createOrUpdateFunction resolved with
    gets |-> 0,                \* operations.get queries issued
    reply |-> NoReply,         \* what the last operations.get called back with
    result |-> Undefined ]     \* payload pollOperation resolved with

Init ==
  /\ req = [r \in Requests |-> Undefined]
  /\ stage = [r \in Requests |-> "idle"]
  /\ response = [r \in Requests |-> NoResponse]
  /\ tasks = [r \in Requests |-> <<>>]
  /\ downloads = [r \in Requests |-> 0]
  /\ currentDeployments = <<>>
  /\ client = NoClient
  /\ lookups = 0
  /\ constructions = 0
  /\ fs = {}
  /\ bucket = {}
  /\ functions = {FunctionResourceName("f2")}
  /\ faults = 0
  /\ notDone = 0

\* -------------------------------------------------------- promise chain
\* Error objects: a message and, for some, a statusCode (0 = the error has
\* no such member).  validateRequest sets statusCode 403 on its error; the
\* errors this module throws itself and the collaborators' own failures
\* carry none, except that downloadGitRepo fetches over HTTP and hands on
\* the HTTP client's error, which carries the response's statusCode.
Error(message) == [message |-> message, statusCode |-> 0]
Unauthorized == [message |-> "Unauthorized", statusCode |-> 403]
NoMatching == Error("No matching deployments")
TypeError == Error("TypeError")
DownloadErrors ==
  {Error("download failed"), [message |-> "Response code 404", statusCode |-> 404]}
Null == [null |-> TRUE]

\* A handler that answers every error with 500.
StatusOfAlways500(err) == 500

\* err.statusCode ? err.statusCode : 500
StatusOf(err) == IF err.statusCode # 0 THEN err.statusCode ELSE 500

\* A .catch that answers but leaves the chain where it was.
CatchKeepsGoing(r, status, message) ==
  /\ response' = [response EXCEPT ![r] = ErrorResponse(status, message)]
  /\ UNCHANGED stage

\* The .catch of githubAutoDeployer: status err.statusCode or 500, body
\* err.message.  It runs for the first rejection that reaches the chain.
Catch(r, status, message) ==
  /\ response' = [response EXCEPT ![r] = ErrorResponse(status, message)]
  /\ stage' = [stage EXCEPT ![r] = "end"]

\* A chain that drops the rejection of a member.
MemberRejectsDropped(r, st, message) == UNCHANGED <<response, stage>>

\* Every rejection of a member reaches the .catch, also after the first.
MemberRejectsAlways(r, st, message) == Catch(r, StatusOf(Error(message)), message)

\* A member of the Promise.all of stage st rejects: the chain rejects if it is
\* still waiting on that Promise.all, otherwise the rejection is dropped.
MemberRejects(r, st, message) ==
  IF stage[r] = st
  THEN Catch(r, StatusOf(Error(message)), message)
  ELSE UNCHANGED <<response, stage>>

\* Promise.all(...).then: the reaction runs once every member has resolved.
AllOf(ts, P(_)) == \A i \in 1..Len(ts) : P(ts[i])

\* cleanup(archive) inside uploadArchive: fs.unlinkSync(archive) in a try
\* whose catch ignores the error.  unlinkSync throws on a path that is not a
\* string (and on a missing file) and removes the file otherwise.
cleanup(files, archive) ==
  IF archive = Undefined THEN files ELSE files \ {archive}

\* The .then of deployFunction after getClient: builds the resource and calls
\* createOrUpdateFunction, which issues functions.create.
IssueCreate(t, gcf) ==
  LET resource == [ sourceArchiveUrl |-> SourceArchiveUrl(t.archive),
                    name |-> FunctionResourceName(t.fnCfg.functionName) ]
  IN  [t EXCEPT !.deploy = "create", !.gcf = gcf, !.resource = resource,
                !.createCalls = Append(@, [resource |-> resource,
                                           location |-> Location])]

\* getClient as seen by one caller: the cached client when it is set (the
\* reaction then runs in the same macrotask), else a credential lookup.
deployFunction(t, deployment, cachedClient) ==
  IF cachedClient # NoClient
  THEN IssueCreate([t EXCEPT !.fnCfg = deployment], cachedClient)
  ELSE [t EXCEPT !.fnCfg = deployment, !.deploy = "auth"]

\* pollOperation: issues operations.get for the handle.
IssueGet(t) == [t EXCEPT !.deploy = "get", !.gets = @ + 1]

\* results.forEach((result, i) => result.deployment = currentDeployments[i])
AnnotatedResults(ts, current) ==
  [ i \in 1..Len(ts) |->
      [ name |-> ts[i].result.name,
        deployment |-> IF i <= Len(current) THEN current[i] ELSE Undefined ] ]

Min(a, b) == IF a <= b THEN a ELSE b

\* --------------------------------------------------------------- actions
\* exports.githubAutoDeployer: the handler's synchronous part and the
\* reactions validateRequest and getCurrentDeployments, up to downloadRepo.
githubAutoDeployer(r, rawBody, signature) ==
  LET request == [rawBody |-> rawBody, signature |-> signature]
      body == JSONParse(rawBody)
      repository == Repo(body.repository.owner, body.repository.name)
      matched == filterDeployments(repository)
  IN  /\ stage[r] = "idle"
      /\ \A q \in Requests : q < r => stage[q] # "idle"
      /\ req' = [req EXCEPT ![r] = request]
      /\ IF ~HasRepository(body)
         THEN \* req.body.repository.owner throws before the chain exists
              /\ stage' = [stage EXCEPT ![r] = "threw"]
              /\ UNCHANGED <<response, currentDeployments, downloads>>
         ELSE IF ~validateRequest(request)
         THEN /\ Catch(r, StatusOf(Unauthorized), Unauthorized.message)
              /\ UNCHANGED <<currentDeployments, downloads>>
         ELSE /\ currentDeployments' = matched
              /\ IF Len(matched) = 0
                 THEN /\ Catch(r, StatusOf(NoMatching), NoMatching.message)
                      /\ UNCHANGED downloads
                 ELSE /\ stage' = [stage EXCEPT ![r] = "download"]
                      /\ downloads' = [downloads EXCEPT ![r] = @ + 1]
                      /\ UNCHANGED response
      /\ UNCHANGED <<tasks, client, lookups, constructions, fs, bucket, functions,
                     faults,
                 notDone>>

\* randomstring.generate(13): any of the 13-character strings.  Strings
\* never drawn before are interchangeable, so a draw is either a string not
\* drawn before, named after the zipDir call that draws it, or a repetition
\* of an earlier draw.
FreshToken(r, i) == <<r, i>>
UsedTokens ==
  UNION { {tasks[q][i].archive[2] : i \in 1..Len(tasks[q])} : q \in Requests }
Tokens(r, n) == UsedTokens \cup {FreshToken(r, i) : i \in 1..n}
Seen(token, i) == UsedTokens \cup {token[k] : k \in 1..(i - 1)}
Repeats(token) == Cardinality({i \in DOMAIN token : token[i] \in Seen(token, i)})
Drawn(r, token) ==
  \A i \in DOMAIN token : token[i] \in Seen(token, i) \/ token[i] = FreshToken(r, i)

\* The downloadGitRepo callback and, on success, the zipDir fan-out over
\* config.currentDeployments as it is at that moment.
downloadRepoCallback(r, err) ==
  /\ stage[r] = "download"
  /\ IF err # Null
     THEN /\ Outcome(TRUE)
          /\ Catch(r, StatusOf(err), err.message)
          /\ UNCHANGED tasks
     ELSE \E token \in [1..Len(currentDeployments) ->
                          Tokens(r, Len(currentDeployments))] :
            /\ Drawn(r, token)
            /\ faults + Repeats(token) <= MaxFaults
            /\ faults' = faults + Repeats(token)
            /\ tasks' = [tasks EXCEPT ![r] =
                 [ i \in 1..Len(currentDeployments) |->
                     NewTask(currentDeployments[i], ArchivePath(token[i])) ]]
            /\ IF Len(currentDeployments) = 0
               THEN \* every Promise.all of an empty array resolves at once
                    /\ response' = [response EXCEPT ![r] = OkResponse(<<>>)]
                    /\ stage' = [stage EXCEPT ![r] = "end"]
               ELSE /\ stage' = [stage EXCEPT ![r] = "zip"]
                    /\ UNCHANGED response
  /\ UNCHANGED <<req, downloads, currentDeployments, client, lookups,
                 constructions, fs, bucket, functions,
                 notDone>>

\* A join of the archives that the first finished archive satisfies.
AnyArchived(ts) == \E k \in 1..Len(ts) : ts[k].zip = "ok"

\* Promise.all(archives) has resolved: every zipDir has.
AllArchived(ts) == AllOf(ts, LAMBDA t : t.zip = "ok")

\* The zipFolder callback of archive i and, when it completes the group, the
\* uploadArchive fan-out.
zipFolderCallback(r, i, err) ==
  /\ i \in 1..Len(tasks[r])
  /\ tasks[r][i].zip = "running"
  /\ Outcome(err)
  /\ IF err
     THEN /\ tasks' = [tasks EXCEPT ![r][i].zip = "err"]
          /\ MemberRejects(r, "zip", "zip failed")
          /\ UNCHANGED fs
     ELSE LET zipped == [tasks[r] EXCEPT ![i].zip = "ok"]
              joined == stage[r] = "zip" /\ AllArchived(zipped)
          IN  /\ fs' = fs \cup {tasks[r][i].archive}
              /\ tasks' = [tasks EXCEPT ![r] =
                   IF joined
                   THEN [k \in 1..Len(zipped) |-> [zipped[k] EXCEPT !.upload = "running"]]
                   ELSE zipped]
              /\ stage' = [stage EXCEPT ![r] = IF joined THEN "upload" ELSE @]
              /\ UNCHANGED response
  /\ UNCHANGED <<req, downloads, currentDeployments, client, lookups,
                 constructions, bucket, functions,
                 notDone>>

\* archives.map((archive, i) => deployFunction(archive,
\*   config.currentDeployments[i].functionName)): the calls made before the
\* map throws on a missing currentDeployments[i], or all of them.
StartDeploys(ts) ==
  LET started == Min(Len(ts), Len(currentDeployments))
  IN  [ k \in 1..Len(ts) |->
          IF k <= started
          THEN deployFunction(ts[k], currentDeployments[k], client)
          ELSE ts[k] ]

\* The settling of bucket.upload for archive i with uploadArchive's reaction
\* (cleanup is called without an argument, so its parameter is undefined) and,
\* when it completes the group, the deployFunction fan-out.
uploadCallback(r, i, err) ==
  /\ i \in 1..Len(tasks[r])
  /\ tasks[r][i].upload = "running"
  /\ err \/ tasks[r][i].archive \in fs
  /\ Outcome(err)
  /\ fs' = cleanup(fs, Undefined)
  /\ IF err
     THEN /\ tasks' = [tasks EXCEPT ![r][i].upload = "err"]
          /\ MemberRejects(r, "upload", "upload failed")
          /\ UNCHANGED <<bucket, lookups>>
     ELSE LET uploaded == [tasks[r] EXCEPT ![i].upload = "ok"]
              joined == /\ stage[r] = "upload"
                        /\ AllOf(uploaded, LAMBDA t : t.upload = "ok")
              started == Min(Len(uploaded), Len(currentDeployments))
          IN  /\ bucket' = bucket \cup {PathBase(tasks[r][i].archive)}
              /\ tasks' = [tasks EXCEPT ![r] =
                   IF joined THEN StartDeploys(uploaded) ELSE uploaded]
              /\ lookups' = IF joined /\ client = NoClient THEN lookups + started ELSE lookups
              /\ IF joined /\ started < Len(uploaded)
                 THEN \* currentDeployments[i] is undefined: TypeError
                      Catch(r, StatusOf(TypeError), TypeError.message)
                 ELSE /\ stage' = [stage EXCEPT ![r] = IF joined THEN "deploy" ELSE @]
                      /\ UNCHANGED response
  /\ UNCHANGED <<req, downloads, currentDeployments, client, constructions,
                 functions,
                 notDone>>

\* A deploy sequence settles.  A rejection rejects the chain's Promise.all; a
\* resolution that completes the group annotates the results and responds.
DeployRejects(r, i, message) ==
  /\ tasks' = [tasks EXCEPT ![r][i].deploy = "rejected"]
  /\ MemberRejects(r, "deploy", message)

\* The getApplicationDefault callback of deploy sequence i: on success it
\* constructs a client, stores it in `client` and resolves with it.
getApplicationDefaultCallback(r, i, err) ==
  /\ i \in 1..Len(tasks[r])
  /\ tasks[r][i].deploy = "auth"
  /\ Outcome(err)
  /\ IF err
     THEN /\ DeployRejects(r, i, "auth failed")
          /\ UNCHANGED <<client, constructions>>
     ELSE /\ constructions' = constructions + 1
          /\ client' = NewClient(r, i)
          /\ tasks' = [tasks EXCEPT ![r][i] = IssueCreate(@, NewClient(r, i))]
          /\ UNCHANGED <<response, stage>>
  /\ UNCHANGED <<req, downloads, currentDeployments, lookups, fs, bucket,
                 functions,
                 notDone>>

\* createOrUpdateFunction: the create error that routes to update, and the
\* arguments of that update call.
RoutesToUpdateOnAnyError(outcome) == outcome # "ok"

RoutesToUpdate(outcome) == outcome = "alreadyExists"
\* An update call that names the function by its source archive.
UpdateArgsOtherName(resource) ==
  [resource |-> resource, name |-> resource.sourceArchiveUrl]
UpdateArgs(resource) == [resource |-> resource, name |-> resource.name]

\* Operation handles the platform hands out; the call that produced the
\* handle identifies it.
Operation(kind, r, i) == [name |-> <<"operations", kind, r, i>>]

\* The functions.create callback inside createOrUpdateFunction.  The
\* platform refuses to create a function that exists with reason
\* alreadyExists, and can fail for any other reason.
createCallback(r, i, outcome) ==
  LET t == tasks[r][i]
      call == t.createCalls[Len(t.createCalls)]
  IN  /\ i \in 1..Len(tasks[r])
      /\ t.deploy = "create"
      /\ outcome = "ok" => call.resource.name \notin functions
      /\ outcome = "alreadyExists" => call.resource.name \in functions
      /\ Outcome(outcome = "other")
      /\ CASE RoutesToUpdate(outcome) ->
                /\ tasks' = [tasks EXCEPT ![r][i] =
                     [t EXCEPT !.createReason = outcome,
                               !.deploy = "update",
                               !.updateCalls = Append(@, UpdateArgs(t.resource))]]
                /\ UNCHANGED <<response, stage, functions>>
           [] ~RoutesToUpdate(outcome) /\ outcome # "ok" ->
                /\ tasks' = [tasks EXCEPT ![r][i] =
                     [t EXCEPT !.createReason = outcome, !.deploy = "rejected"]]
                /\ MemberRejects(r, "deploy", "create failed")
                /\ UNCHANGED functions
           [] ~RoutesToUpdate(outcome) /\ outcome = "ok" ->
                /\ functions' = functions \cup {call.resource.name}
                /\ tasks' = [tasks EXCEPT ![r][i] =
                     IssueGet([t EXCEPT !.createReason = "ok",
                                        !.operation = Operation("create", r, i)])]
                /\ UNCHANGED <<response, stage>>
      /\ UNCHANGED <<req, downloads, currentDeployments, client, lookups,
                     constructions, fs, bucket,
                 notDone>>

\* The functions.update callback inside createOrUpdateFunction.
updateCallback(r, i, err) ==
  LET t == tasks[r][i]
  IN  /\ i \in 1..Len(tasks[r])
      /\ t.deploy = "update"
      /\ Outcome(err)
      /\ IF err
         THEN DeployRejects(r, i, "update failed")
         ELSE /\ tasks' = [tasks EXCEPT ![r][i] =
                   IssueGet([t EXCEPT !.updateResult = Operation("update", r, i),
                                      !.operation = Operation("update", r, i)])]
              /\ UNCHANGED <<response, stage>>
      /\ UNCHANGED <<req, downloads, currentDeployments, client, lookups,
                     constructions, fs, bucket, functions,
                 notDone>>

\* What operations.get can call back with for a handle: a transport error,
\* or an Operation that is not done, done with a response, or done with an
\* error (a done Operation carries either `error` or `response`).
GetReplies(t) ==
  { [err |-> TRUE, done |-> FALSE, error |-> FALSE, response |-> Undefined],
    [err |-> FALSE, done |-> FALSE, error |-> FALSE, response |-> Undefined],
    [err |-> FALSE, done |-> TRUE, error |-> FALSE,
     response |-> [name |-> t.resource.name]],
    [err |-> FALSE, done |-> TRUE, error |-> TRUE, response |-> Undefined] }

\* The operations.get callback of pollOperation: what it does with a reply.
\* On a done Operation it evaluates _operation.response.name before
\* resolving, which throws inside the callback when response is undefined, so
\* the promise is then neither resolved nor rejected.
pollOperationKeepsPolling(reply) ==
  IF reply.err THEN "reject" ELSE "retry"

pollOperationRetriesOnError(reply) ==
  IF reply.err THEN "retry"
  ELSE IF reply.done
       THEN IF reply.response = Undefined THEN "throw" ELSE "resolve"
       ELSE "retry"

pollOperation(reply) ==
  IF reply.err THEN "reject"
  ELSE IF reply.done
       THEN IF reply.response = Undefined THEN "throw" ELSE "resolve"
       ELSE "retry"

operationsGetCallback(r, i, reply) ==
  LET t == tasks[r][i]
      polled == pollOperation(reply)
      resolved == [tasks[r] EXCEPT ![i].deploy = "resolved",
                                   ![i].reply = reply,
                                   ![i].result = reply.response]
      joined == /\ stage[r] = "deploy"
                /\ AllOf(resolved, LAMBDA d : d.deploy = "resolved")
  IN  /\ i \in 1..Len(tasks[r])
      /\ t.deploy = "get"
      /\ reply \in GetReplies(t)
      /\ (~reply.err /\ ~reply.done) => notDone < MaxPolls
      /\ notDone' = IF ~reply.err /\ ~reply.done THEN notDone + 1 ELSE notDone
      /\ Outcome(reply.err \/ reply.error)
      /\ CASE polled = "reject" ->
                /\ tasks' = [tasks EXCEPT ![r][i].deploy = "rejected",
                                          ![r][i].reply = reply]
                /\ MemberRejects(r, "deploy", "get failed")
           [] polled = "retry" ->
                /\ tasks' = [tasks EXCEPT ![r][i].deploy = "wait",
                                          ![r][i].reply = reply]
                /\ UNCHANGED <<response, stage>>
           [] polled = "throw" ->
                /\ tasks' = [tasks EXCEPT ![r][i].deploy = "threw",
                                          ![r][i].reply = reply]
                /\ UNCHANGED <<response, stage>>
           [] polled = "resolve" ->
                /\ tasks' = [tasks EXCEPT ![r] = resolved]
                /\ IF joined
                   THEN /\ response' = [response EXCEPT ![r] =
                             OkResponse(AnnotatedResults(resolved, currentDeployments))]
                        /\ stage' = [stage EXCEPT ![r] = "end"]
                   ELSE UNCHANGED <<response, stage>>
      /\ UNCHANGED <<req, downloads, currentDeployments, client, lookups,
                     constructions, fs, bucket, functions>>

\* The setTimeout(..., 500) callback of pollOperation: the re-query.
pollTimeout(r, i) ==
  /\ i \in 1..Len(tasks[r])
  /\ tasks[r][i].deploy = "wait"
  /\ tasks' = [tasks EXCEPT ![r][i] = IssueGet(@)]
  /\ UNCHANGED <<req, stage, response, downloads, currentDeployments, client,
                 lookups, constructions, fs, bucket, functions, faults, notDone>>

Next ==
  \/ \E r \in Requests, rawBody \in RawBodies :
       \E signature \in Headers(rawBody) : githubAutoDeployer(r, rawBody, signature)
  \/ \E r \in Requests, err \in {Null} \cup DownloadErrors : downloadRepoCallback(r, err)
  \/ \E r \in Requests : \E i \in 1..Len(tasks[r]), err \in BOOLEAN : zipFolderCallback(r, i, err)
  \/ \E r \in Requests : \E i \in 1..Len(tasks[r]), err \in BOOLEAN : uploadCallback(r, i, err)
  \/ \E r \in Requests : \E i \in 1..Len(tasks[r]), err \in BOOLEAN :
       getApplicationDefaultCallback(r, i, err)
  \/ \E r \in Requests : \E i \in 1..Len(tasks[r]), outcome \in {"ok", "alreadyExists", "other"} :
       createCallback(r, i, outcome)
  \/ \E r \in Requests : \E i \in 1..Len(tasks[r]), err \in BOOLEAN : updateCallback(r, i, err)
  \/ \E r \in Requests : \E i \in 1..Len(tasks[r]) :
       \E reply \in GetReplies(tasks[r][i]) : operationsGetCallback(r, i, reply)
  \/ \E r \in Requests : \E i \in 1..Len(tasks[r]) : pollTimeout(r, i)

Spec == Init /\ [][Next]_vars

\* ------------------------------------------------------------- vocabulary
Arrived(r) == req[r] # Undefined
WellFormed(r) == Arrived(r) /\ HasRepository(JSONParse(req[r].rawBody))
\* `${user}/${repo}` of the request
RepositoryOf(r) ==
  LET body == JSONParse(req[r].rawBody)
  IN  Repo(body.repository.owner, body.repository.name)
Responded(r) == response[r] # NoResponse
TaskIds == {<<r, i>> \in Requests \X (1..Len(deployments)) : i <= Len(tasks[r])}
Task(id) == tasks[id[1]][id[2]]
\* calls made on behalf of a request after matching
NoDownstream(r) == downloads[r] = 0 /\ tasks[r] = <<>>

\* ----------------------------------------------------------------- C1
\* C1: every request whose x-hub-signature differs from 'sha1=' + HMAC-SHA1
\* of the body under the secret is answered 403 and reaches no downstream
\* operation, whatever the shape of its body.
C1_MismatchAnswered403 ==
  \A r \in Requests :
    (Arrived(r) /\ ~validateRequest(req[r]))
      => (response[r].status = 403 /\ NoDownstream(r))

\* ----------------------------------------------------------------- C2
\* C2: once uploadArchive(archive) has settled, with success or with failure,
\* the archive file is gone from scratch storage.
C2_ArchiveRemovedAfterUpload ==
  \A id \in TaskIds :
    Task(id).upload \in {"ok", "err"} => Task(id).archive \notin fs

\* ----------------------------------------------------------------- C3
\* C3: pollOperation rejects whenever the operation is reported done with an
\* error, resolves with the operation's payload only when it is reported done
\* without one, and no 200 response holds a result of an operation that
\* finished with an error.
C3_PollFailsOnOperationError ==
  \A id \in TaskIds :
    LET t == Task(id)
    IN  /\ (t.reply.done /\ t.reply.error) => t.deploy = "rejected"
        /\ t.deploy = "resolved" =>
             (t.reply.done /\ ~t.reply.error /\ t.result = t.reply.response)
        /\ (t.reply.done /\ t.reply.error) => response[id[1]].status # 200

\* ----------------------------------------------------------------- C4
\* C4: in every 200 response, result i is annotated with the deployment
\* config whose path was archived and whose functionName was deployed to
\* produce it.
C4_ResultsCarryTheirOrigin ==
  \A r \in Requests :
    response[r].status = 200 =>
      \A i \in 1..Len(response[r].results) :
        /\ tasks[r][i].fnCfg = tasks[r][i].cfg
        /\ response[r].results[i].deployment = tasks[r][i].cfg

\* ----------------------------------------------------------------- C5
\* C5: the matched set a request works with is never empty after matching,
\* and a 200 response holds exactly one result per configured deployment of
\* the request's own repository.
InPipeline(r) == stage[r] \in {"download", "zip", "upload", "deploy"}
C5_MatchedSetNonEmpty ==
  \A r \in Requests :
    /\ InPipeline(r) => currentDeployments # <<>>
    /\ response[r].status = 200 =>
         /\ Len(response[r].results) > 0
         /\ Len(response[r].results) = Len(filterDeployments(RepositoryOf(r)))

\* ----------------------------------------------------------------- C6
\* C6: the credential lookup and the client construction run at most once per
\* process, and every deploy sequence uses the same client.
C6_ClientInitializedOnce ==
  /\ lookups <= 1
  /\ constructions <= 1
  /\ \A a, b \in TaskIds :
       (Task(a).gcf # NoClient /\ Task(b).gcf # NoClient) => Task(a).gcf = Task(b).gcf

\* ----------------------------------------------------------------- C7
\* C7: when the create call fails with reason alreadyExists, exactly one
\* update call is issued, with the resource body of the create call and the
\* name resource.name, and when the update succeeds createOrUpdateFunction
\* resolves with the handle the update returned (polling starts on it).
C7_AlreadyExistsRoutesToUpdate ==
  \A id \in TaskIds :
    LET t == Task(id)
    IN  /\ Len(t.createCalls) <= 1
        /\ t.createReason = "alreadyExists" =>
             /\ Len(t.updateCalls) = 1
             /\ t.updateCalls[1].resource = t.createCalls[1].resource
             /\ t.updateCalls[1].name = t.createCalls[1].resource.name
             /\ t.updateResult # NoOperation =>
                  (t.operation = t.updateResult /\ t.gets >= 1)
        /\ t.createReason # "alreadyExists" =>
             (t.updateCalls = <<>> /\ t.updateResult = NoOperation)

\* A function created by one deploy sequence is deployed a second time by
\* another one, which is refused the create and succeeds through update.
C7_Witness ==
  \E a, b \in TaskIds :
    /\ a # b
    /\ Task(a).createReason = "ok"
    /\ Task(b).createReason = "alreadyExists"
    /\ Task(b).resource.name = Task(a).resource.name
    /\ Task(b).updateResult # NoOperation
    /\ Task(b).operation = Task(b).updateResult
    /\ Task(b).deploy = "resolved"

\* ----------------------------------------------------------------- C8
\* C8: a request whose repository matches no configured deployment (exact
\* comparison of owner/name) is answered with a failure and never reaches
\* downloadRepo; when its signature validates, the failure is the 500
\* response with the "No matching deployments" message.
MatchesNothing(r) ==
  /\ WellFormed(r)
  /\ \A k \in 1..Len(deployments) : deployments[k].repository # RepositoryOf(r)
C8_UnmatchedRepositoryFails ==
  \A r \in Requests :
    MatchesNothing(r) =>
      /\ Responded(r)
      /\ response[r].status # 200
      /\ NoDownstream(r)
      /\ validateRequest(req[r]) =>
           response[r] = ErrorResponse(500, "No matching deployments")

\* A validated request for an unconfigured repository is refused while
\* another request is in its pipeline.
C8_Witness ==
  \E r, q \in Requests :
    /\ q # r
    /\ InPipeline(q)
    /\ MatchesNothing(r)
    /\ validateRequest(req[r])
    /\ response[r] = ErrorResponse(500, "No matching deployments")
    /\ downloads[r] = 0

\* ----------------------------------------------------------------- C9
\* C9: when one of the deploy sequences of a request has failed, the request
\* is never answered 200, and the rejection of a deploy sequence leaves the
\* request answered with a single error response (a status other than 200
\* and a message), also when the sibling deployments succeed.
IsErrorResponse(resp) ==
  /\ resp.status \notin {0, 200}
  /\ DOMAIN resp = {"status", "message"}
C10_ConcurrentArchivesDistinct ==
  \A a, b \in TaskIds :
    (a # b /\ Task(a).zip = "running" /\ Task(b).zip = "running") =>
      Task(a).archive # Task(b).archive

\* ----------------------------------------------------------------- C11
\* C11: a request that is the only one the process has received, that
\* matches exactly one configured deployment and none of whose collaborator
\* calls fails, fetches once, archives once, uploads once, issues one create
\* call and no update call, issues no operations.get after the first reply
\* that reports the operation done, and answers 200 with one result whose
\* deployment is the matched config.
Solo(r) == Arrived(r) /\ \A q \in Requests \ {r} : ~Arrived(q)
MatchesOne(r) ==
  /\ WellFormed(r)
  /\ validateRequest(req[r])
  /\ Len(filterDeployments(RepositoryOf(r))) = 1
C11_SingleMatchRunsOnce ==
  \A r \in Requests :
    (Solo(r) /\ MatchesOne(r) /\ faults = 0) =>
      LET matched == filterDeployments(RepositoryOf(r))[1]
      IN  /\ downloads[r] = 1
          /\ Len(tasks[r]) <= 1
          /\ \A i \in 1..Len(tasks[r]) :
               LET t == tasks[r][i]
               IN  /\ t.cfg = matched
                   /\ Len(t.createCalls) <= 1
                   /\ t.updateCalls = <<>>
                   /\ t.gets = IF t.deploy \in {"get", "resolved"}
                               THEN notDone + 1 ELSE notDone
                   /\ t.reply.done => t.deploy = "resolved"
          /\ stage[r] = "end" =>
               /\ Len(tasks[r]) = 1
               /\ tasks[r][1].zip = "ok"
               /\ tasks[r][1].upload = "ok"
               /\ Len(tasks[r][1].createCalls) = 1
               /\ tasks[r][1].deploy = "resolved"
               /\ response[r] = OkResponse(
                    << [ name |-> FunctionResourceName(matched.functionName),
                         deployment |-> matched ] >>)

\* The request has been answered after one reply "not done" and one "done".
C11_Witness ==
  \E r \in Requests :
    /\ Solo(r) /\ MatchesOne(r) /\ faults = 0
    /\ response[r].status = 200
    /\ tasks[r][1].gets = 2

\* ----------------------------------------------------------------- C12
\* C12: every functions.create and functions.update call carries as
\* sourceArchiveUrl 'gs://' + stageBucket + '/' + the base file name of the
\* archive of its deployment, and when the call is issued the upload of that
\* archive by the same request has completed successfully, so that the
\* bucket holds an object of that name.
CallsOf(t) ==
  {t.createCalls[k].resource : k \in 1..Len(t.createCalls)}
    \cup {t.updateCalls[k].resource : k \in 1..Len(t.updateCalls)}
C12_SourceIsUploadedArchive ==
  \A id \in TaskIds :
    \A resource \in CallsOf(Task(id)) :
      LET url == resource.sourceArchiveUrl
          archive == Task(id).archive
      IN  /\ Len(url) = 3
          /\ url[1] = "gs"
          /\ url[2] = stageBucket
          /\ url[3] = archive[Len(archive)]
          /\ Task(id).upload = "ok"
          /\ url[3] \in bucket

\* Both deployments of one request have issued their create call and one of
\* them its update call.
C12_Witness ==
  \E r \in Requests :
    /\ Len(tasks[r]) = 2
    /\ \A i \in 1..2 : tasks[r][i].createCalls # <<>>
    /\ \E i \in 1..2 : tasks[r][i].updateCalls # <<>>

\* ----------------------------------------------------------------- C13
\* The errors a request's chain can be rejected with.
Failures ==
  {Unauthorized, NoMatching, TypeError} \cup DownloadErrors
    \cup {Error(message) : message \in {"zip failed", "upload failed",
             "auth failed", "create failed", "update failed", "get failed"}}
Failed(r) == Responded(r) /\ response[r].status # 200

C14_StagesAreBarriers ==
  \A r \in Requests :
    /\ (\E i \in 1..Len(tasks[r]) : tasks[r][i].upload # "none")
         => \A k \in 1..Len(tasks[r]) : tasks[r][k].zip = "ok"
    /\ (\E i \in 1..Len(tasks[r]) : tasks[r][i].deploy # "none")
         => \A k \in 1..Len(tasks[r]) : tasks[r][k].upload = "ok"

\* A request with two deployments has started both deploy sequences.
C14_Witness ==
  \E r \in Requests :
    /\ Len(tasks[r]) = 2
    /\ \A i \in 1..2 : tasks[r][i].deploy # "none"

\* ----------------------------------------------------------------- C15
\* C15: the failure of a stage stops the stages after it: after a fetch
\* failure no zipDir has started, after the failure of any zipDir no
\* uploadArchive has started, and after the failure of any uploadArchive no
\* deployFunction has started and no create, update or get call was made
\* for the request, while the siblings of the failed call still complete.
C15_FailureStopsLaterStages ==
  \A r \in Requests :
    /\ (Failed(r) /\ \E err \in DownloadErrors : response[r].message = err.message)
         => tasks[r] = <<>>
    /\ (\E i \in 1..Len(tasks[r]) : tasks[r][i].zip = "err")
         => \A k \in 1..Len(tasks[r]) :
              tasks[r][k].upload = "none" /\ tasks[r][k].deploy = "none"
    /\ (\E i \in 1..Len(tasks[r]) : tasks[r][i].upload = "err")
         => \A k \in 1..Len(tasks[r]) :
              /\ tasks[r][k].deploy = "none"
              /\ tasks[r][k].createCalls = <<>>
              /\ tasks[r][k].updateCalls = <<>>
              /\ tasks[r][k].gets = 0

\* One upload of a request failed, its sibling completed, and the request
\* is answered with the error.
C15_Witness ==
  \E r \in Requests :
    /\ Len(tasks[r]) = 2
    /\ \E i, k \in 1..2 :
         tasks[r][i].upload = "err" /\ tasks[r][k].upload = "ok"
    /\ response[r] = ErrorResponse(500, "upload failed")

\* ----------------------------------------------------------------- C16
\* C16: a request sends at most one response: once a response is sent, no
\* later completion or failure of a sibling call sends another or changes
\* the one sent.
C16_ResponseSentOnce ==
  [][\A r \in Requests : Responded(r) => response'[r] = response[r]]_vars

\* The deploy stage was abandoned with an error response while a deploy
\* sequence it had started was still running, and that sequence has since
\* been rejected.
C16_Witness ==
  \E r \in Requests :
    /\ response[r] = ErrorResponse(500, "TypeError")
    /\ \E i \in 1..Len(tasks[r]) : tasks[r][i].deploy = "rejected"

\* ----------------------------------------------------------------- C17
\* C17: createOrUpdateFunction issues at most one create call and at most
\* one update call per deployment, the update call only after the create
\* call failed with reason alreadyExists; a create error with another
\* reason rejects without an update call, and an update error rejects.
C17_CreateOrUpdateNeverRetries ==
  \A id \in TaskIds :
    LET t == Task(id)
    IN  /\ Len(t.createCalls) <= 1
        /\ Len(t.updateCalls) <= 1
        /\ t.updateCalls # <<>> => t.createReason = "alreadyExists"
        /\ t.createReason = "other" =>
             (t.deploy = "rejected" /\ t.updateCalls = <<>> /\ t.gets = 0)
        /\ (t.updateCalls # <<>> /\ t.deploy # "update"
               /\ t.updateResult = NoOperation) =>
             (t.deploy = "rejected" /\ t.gets = 0)

\* Of two deployments one was rejected by a create error other than
\* alreadyExists and the other went on to its update call.
C17_Witness ==
  \E a, b \in TaskIds :
    /\ Task(a).createReason = "other" /\ Task(a).deploy = "rejected"
    /\ Task(b).createReason = "alreadyExists" /\ Len(Task(b).updateCalls) = 1

\* ----------------------------------------------------------------- C18
\* C18: for each polled handle a query is issued only when none is
\* outstanding: the first after create or update returned the handle, and
\* one re-query after the wait that follows a reply "not done"; while a
\* query is outstanding, and after a reply that is an error or reports the
\* operation done, no query is issued.
C18_OneQueryAtATime ==
  [][\A id \in TaskIds :
       LET t == tasks[id[1]][id[2]]
           u == tasks'[id[1]][id[2]]
       IN  /\ u.gets \in {t.gets, t.gets + 1}
           /\ u.gets = t.gets + 1 =>
                (t.deploy \in {"create", "update", "wait"} /\ u.deploy = "get")
           /\ t.deploy = "get" => u.gets = t.gets
           /\ t.deploy = "wait" => (~t.reply.err /\ ~t.reply.done)
           /\ (t.deploy = "wait" /\ u # t) =>
                (u.deploy = "get" /\ u.gets = t.gets + 1)
           /\ (t.reply.err \/ t.reply.done) =>
                (u.gets = t.gets /\ u.deploy = t.deploy)]_vars

\* A handle was queried, reported not done, queried again and reported done.
C18_Witness ==
  \E id \in TaskIds : Task(id).gets = 2 /\ Task(id).deploy = "resolved"

\* ----------------------------------------------------------------- C19
\* What the event loop still owes request r: the callbacks of its
\* collaborator calls in flight and its pending poll timer.
Callback(r) ==
  \/ \E err \in {Null} \cup DownloadErrors : downloadRepoCallback(r, err)
  \/ \E i \in 1..Len(tasks[r]) :
       \/ \E err \in BOOLEAN : zipFolderCallback(r, i, err)
       \/ \E err \in BOOLEAN : uploadCallback(r, i, err)
       \/ \E err \in BOOLEAN : getApplicationDefaultCallback(r, i, err)
       \/ \E outcome \in {"ok", "alreadyExists", "other"} : createCallback(r, i, outcome)
       \/ \E err \in BOOLEAN : updateCallback(r, i, err)
       \/ \E reply \in GetReplies(tasks[r][i]) : operationsGetCallback(r, i, reply)
       \/ pollTimeout(r, i)

\* Every collaborator call calls back and every timer fires; with MaxPolls
\* bounding the replies "not done", every polled operation is in the end
\* reported done or the query fails.
FairSpec == Spec /\ \A r \in Requests : WF_vars(Callback(r))

\* C19: when every collaborator call calls back and every polled operation
\* is eventually reported done, with success or with an error, every
\* request that passes validation eventually sends a response.
C19_EveryRequestAnswered ==
  \A r \in Requests :
    (WellFormed(r) /\ validateRequest(req[r])) ~> Responded(r)

\* ----------------------------------------------------------------- C20
\* The configured deployments of the repository request r names.
OwnDeployments(r) ==
  {deployments[k] : k \in {j \in 1..Len(deployments) :
                            deployments[j].repository = RepositoryOf(r)}}

\* C20: a request archives only paths, and issues create and update calls
\* only for function names, of configured deployments of its own
\* repository, whatever other requests overlap with it.
C20_RequestsIsolated ==
  \A id \in TaskIds :
    /\ \E d \in OwnDeployments(id[1]) : Task(id).cfg.path = d.path
    /\ \A resource \in CallsOf(Task(id)) :
         \E d \in OwnDeployments(id[1]) :
           resource.name = FunctionResourceName(d.functionName)
====
